---- MODULE Spec2Model ----
(***************************************************************************)
(* Model of transfer_tasks.py: a checkpointed, retry-driven bulk copy of    *)
(* task lists and tasks from a source account to a destination account.    *)
(*                                                                         *)
(* Python dicts are TLA+ functions with a string domain; d.get(k, default) *)
(* is Get(d, k, default).  An HTTP outcome is its status code (200 = the   *)
(* call returned).  One step of the model is one remote call, one file     *)
(* operation or one loop decision of transfer(); pc is the position of     *)
(* the single thread of control.                                           *)
(***************************************************************************)
EXTENDS Integers, Sequences, FiniteSets, TLC

VARIABLES
    pc,             \* position of transfer(): see Running / Terminal
    run,            \* number of runs of transfer() started so far
    file,           \* content of CHECKPOINT_FILE on disk
    source,         \* the source account (read-only input)
    dst_lists,      \* destination account: task lists created, in order
    dst_tasks,      \* destination account: tasks created, in order
    copied_ids,     \* transfer(): copied_ids
    src_lists,      \* transfer(): src_lists
    list_id_map,    \* transfer(): list_id_map, an insertion-ordered dict
    items,          \* list_all_*(): items accumulated so far
    page_token,     \* list_all_*(): page_token (NoToken = None)
    li,             \* index of the current entry of src_lists / list_id_map
    tasks,          \* transfer(): tasks of the current list
    ti,             \* index of the current task in tasks
    inserted,       \* transfer(): inserted
    skipped,        \* transfer(): skipped
    new_title,      \* transfer(): new_title captured by the list lambda
    body,           \* transfer(): body captured by the insert lambda
    ex,             \* the current / last execute_with_retry activation
    after_save,     \* which save_checkpoint call is running: "periodic" / "end"
    err,            \* the exception that ended the run (history)
    loaded,         \* the checkpoint set loaded at the start of this run (history)
    saving,         \* the last save_checkpoint call: file content before it (old)
                    \* and the document it writes (new) (history)
    crash_pc,       \* the position at which the process was killed (history)
    elapsed,        \* time.time() - last_insert_time as of now, in ticks,
                    \* saturated at MIN_INSERT_INTERVAL
    since_write,    \* ticks since the previous item write of this run began,
                    \* saturated at MIN_INSERT_INTERVAL (history)
    write_gap       \* ticks between the starts of the last two item writes of
                    \* this run, saturated at MIN_INSERT_INTERVAL (history)

vars == <<pc, run, file, source, dst_lists, dst_tasks, copied_ids, src_lists,
          list_id_map, items, page_token, li, tasks, ti, inserted, skipped,
          new_title, body, ex, after_save, err, loaded, saving, crash_pc,
          elapsed, since_write, write_gap>>

clock == <<elapsed, since_write, write_gap>>

(***************************************************************************)
(* Program constants                                                       *)
(***************************************************************************)
MAX_RETRIES == 12
CHECKPOINT_EVERY == 20
RETRY_STATUSES == {403, 429, 500, 503}
\* MIN_INSERT_INTERVAL_SEC = 0.35 s, in ticks of 0.05 s
MIN_INSERT_INTERVAL == 7

(***************************************************************************)
(* Bounds of the model                                                     *)
(***************************************************************************)
MaxRuns == 2

\* HTTP outcomes the remote service may answer a call with; 200 is success,
\* any other status surfaces as an HttpError carrying it.
Statuses == {200, 400, 403, 404, 429, 500, 503}
Succeeded(o) == o = 200

NoToken == 0
NoErr == [kind |-> "none", op |-> "none", status |-> 0, calls |-> 0]

(***************************************************************************)
(* Python helpers                                                          *)
(***************************************************************************)
Get(d, k, default) == IF k \in DOMAIN d THEN d[k] ELSE default

\* list(d.items()) of an insertion-ordered dict kept as a sequence of <<k, v>>
DictKeys(m) == {m[i][1] : i \in DOMAIN m}

\* Variant of DictSet: a new key goes to the front of the iteration order.
DictSetFront(m, k, v) ==
    IF k \in DictKeys(m)
    THEN [i \in DOMAIN m |-> IF m[i][1] = k THEN <<k, v>> ELSE m[i]]
    ELSE <<<<k, v>>>> \o m

DictSet(m, k, v) ==
    IF k \in DictKeys(m)
    THEN [i \in DOMAIN m |-> IF m[i][1] = k THEN <<k, v>> ELSE m[i]]
    ELSE Append(m, <<k, v>>)

\* Identifiers of the tasks of the long list: one more than CHECKPOINT_EVERY.
LongIds ==
    <<"k01", "k02", "k03", "k04", "k05", "k06", "k07", "k08", "k09", "k10", "k11",
      "k12", "k13", "k14", "k15", "k16", "k17", "k18", "k19", "k20", "k21">>

\* Lexicographic order of the identifiers of the model, as sorted() sees them.
IdOrder == <<"a", "b", "c", "d">> \o LongIds \o <<"x", "y">>
Rank(id) == CHOOSE i \in DOMAIN IdOrder : IdOrder[i] = id

RECURSIVE sorted(_)
sorted(S) ==
    IF S = {} THEN <<>>
    ELSE LET m == CHOOSE s \in S : \A t \in S : Rank(s) <= Rank(t)
         IN  <<m>> \o sorted(S \ {m})

Range(s) == {s[i] : i \in DOMAIN s}

EmptyDict == [k \in {} |-> ""]

(***************************************************************************)
(* The source account.  Task lists and tasks are served in pages; a page   *)
(* that is not the last carries nextPageToken, an empty page carries no    *)
(* "items" key.                                                            *)
(***************************************************************************)
\* Two lists on two pages; the tasks of "L1" on two pages; "L1" and "L2" each
\* hold a task with identifier "a" (identifiers are unique within a list).
SourceWork ==
    [lists |-> << <<[id |-> "L1", title |-> "Work"]>>,
                  <<[id |-> "L2", title |-> "Home"]>> >>,
     tasks |-> [l \in {"L1", "L2"} |->
                 IF l = "L1"
                 THEN << <<[id |-> "a", title |-> "A", status |-> "needsAction"],
                           [id |-> "b", title |-> "B", status |-> "completed",
                            completed |-> "2024-01-01T00:00:00Z"]>>,
                         <<[id |-> "c", title |-> "C", status |-> "needsAction",
                            due |-> "2024-02-01T00:00:00Z"]>> >>
                 ELSE << <<[id |-> "a", title |-> "A2", notes |-> "n"],
                           [id |-> "d", title |-> "D", status |-> "needsAction"]>> >>]]

\* One untitled list whose listing holds a task without identifier, a
\* deleted task, a task with an unknown status and an empty trailing page.
SourceOdd ==
    [lists |-> << <<[id |-> "L3"]>> >>,
     tasks |-> [l \in {"L3"} |->
                 << <<[title |-> "noid"],
                      [id |-> "x", title |-> "X", deleted |-> TRUE],
                      [id |-> "y", status |-> "weird", due |-> ""]>>,
                    <<>> >>]]

\* One list of CHECKPOINT_EVERY + 1 tasks on one page.
SourceLong ==
    [lists |-> << <<[id |-> "L4", title |-> "Long"]>> >>,
     tasks |-> [l \in {"L4"} |->
                 << [i \in DOMAIN LongIds |-> [id |-> LongIds[i], title |-> "K"]] >>]]

Sources == {SourceWork, SourceOdd}

Resp(pages, tok) ==
    LET p == IF tok = NoToken THEN 1 ELSE tok
    IN  (IF pages[p] = <<>> THEN EmptyDict ELSE ("items" :> pages[p]))
        @@ (IF p < Len(pages) THEN ("nextPageToken" :> p + 1) ELSE EmptyDict)

tasklists_list(tok) == Resp(source.lists, tok)
tasks_list(tasklist_id, tok) == Resp(source.tasks[tasklist_id], tok)

\* Variant of KeepTask: the deleted mark is not looked at.
KeepTaskIgnoringDeleted(t) == Get(t, "id", "") # ""

\* return [t for t in items if t.get("id") and not t.get("deleted")]
KeepTask(t) == /\ Get(t, "id", "") # ""
               /\ ~Get(t, "deleted", FALSE)

RECURSIVE FilterTasks(_)
FilterTasks(s) ==
    IF s = <<>> THEN <<>>
    ELSE (IF KeepTask(Head(s)) THEN <<Head(s)>> ELSE <<>>) \o FilterTasks(Tail(s))

(***************************************************************************)
(* build_task_body                                                         *)
(***************************************************************************)
\* Variant of build_task_body: due is always copied, empty when absent.
build_task_body_due_always(src_task) ==
    [title  |-> Get(src_task, "title", ""),
     notes  |-> Get(src_task, "notes", ""),
     status |-> IF Get(src_task, "status", "") = "completed"
                THEN "completed" ELSE "needsAction",
     due    |-> Get(src_task, "due", "")]
    @@ (IF Get(src_task, "completed", "") # ""
        THEN ("completed" :> src_task["completed"]) ELSE EmptyDict)

build_task_body(src_task) ==
    [title  |-> Get(src_task, "title", ""),
     notes  |-> Get(src_task, "notes", ""),
     status |-> IF Get(src_task, "status", "") = "completed"
                THEN "completed" ELSE "needsAction"]
    @@ (IF Get(src_task, "due", "") # ""
        THEN ("due" :> src_task["due"]) ELSE EmptyDict)
    @@ (IF Get(src_task, "completed", "") # ""
        THEN ("completed" :> src_task["completed"]) ELSE EmptyDict)

(***************************************************************************)
(* The checkpoint file: absent, a JSON document, or the empty file that    *)
(* open(CHECKPOINT_FILE, "w") leaves before json.dump has written.         *)
(***************************************************************************)
Absent == [state |-> "absent"]
Truncated == [state |-> "truncated"]
Json(data) == [state |-> "json", data |-> data]

\* json.load(f) raises on a file that holds no complete document.
Parses(f) == f.state # "truncated"

\* Variant of load_checkpoint: the document is read under another key than
\* the one save_checkpoint writes.
load_checkpoint_other_key(f) ==
    IF f.state = "absent" THEN {}
    ELSE Range(Get(f.data, "copied_ids", <<>>))

load_checkpoint(f) ==
    IF f.state = "absent" THEN {}
    ELSE Range(Get(f.data, "copied_source_task_ids", <<>>))

json_dump(ids) == Json([copied_source_task_ids |-> sorted(ids)])

\* The identifiers a reader of the file finds in it.
FileIds(f) == IF f.state = "json" THEN load_checkpoint(f) ELSE {}

(***************************************************************************)
(* execute_with_retry                                                      *)
(*                                                                         *)
(* ex is one activation.  attempt is the loop variable of the NEXT         *)
(* iteration; status is "running" while the loop is inside range(          *)
(* MAX_RETRIES), "returned" after `return callable_fn()`, "raised" after   *)
(* `raise` (line 129) or `raise last_err` (line 137).  The remaining       *)
(* fields are history of what the operation did on each invocation:        *)
(* calls, oks, retryable (rfails) and other (nfails) failures, the status  *)
(* of the last invocation, the value the operation returned.               *)
(***************************************************************************)
NewEx(desc) ==
    [op |-> desc, attempt |-> 0, status |-> "running", last_err |-> 0,
     result |-> 0, sleeps |-> 0,
     calls |-> 0, oks |-> 0, rfails |-> 0, nfails |-> 0, last_status |-> 0,
     op_result |-> 0]

\* Variants of should_retry_http_error: one status forgotten; every error retried.
should_retry_without_503(status) == status \in RETRY_STATUSES \ {503}
should_retry_always(status) == TRUE

should_retry_http_error(status) == status \in RETRY_STATUSES

\* The statuses the specification calls retryable (section 4.3); the history
\* fields of ex classify by it, independently of should_retry_http_error.
Transient == {403, 429, 500, 503}

\* Variant of InRange: range(MAX_RETRIES + 1), one attempt too many.
InRangeOneMore(attempt) == attempt <= MAX_RETRIES

\* for attempt in range(MAX_RETRIES): whether the loop has another iteration
InRange(attempt) == attempt < MAX_RETRIES

\* One iteration of the loop: the operation is invoked and answers o (its
\* value is res when it succeeds); when the iteration was the last of the
\* range, the `raise last_err` after the loop is part of the step.
ExecAttempt(e, o, res) ==
    LET h == [e EXCEPT !.calls = @ + 1,
                       !.last_status = o,
                       !.oks = IF Succeeded(o) THEN @ + 1 ELSE @,
                       !.op_result = IF Succeeded(o) THEN res ELSE @,
                       !.rfails = IF o \in Transient THEN @ + 1 ELSE @,
                       !.nfails = IF ~Succeeded(o) /\ o \notin Transient
                                  THEN @ + 1 ELSE @]
    IN  IF Succeeded(o)
        THEN [h EXCEPT !.status = "returned", !.result = res]
        ELSE IF ~should_retry_http_error(o)
        THEN [h EXCEPT !.last_err = o, !.status = "raised"]
        ELSE [h EXCEPT !.last_err = o,
                       !.sleeps = @ + 1,
                       !.attempt = @ + 1,
                       !.status = IF InRange(e.attempt + 1) THEN "running" ELSE "raised"]

HttpError(e) == [kind |-> "HttpError", op |-> e.op, status |-> e.last_err, calls |-> e.calls]

(***************************************************************************)
(* transfer()                                                              *)
(***************************************************************************)
Running == {"list_tasklists", "create_tasklist", "create_tasklist_call",
            "list_tasks", "copy", "insert_call", "save_open", "save_write"}
Terminal == {"done", "error", "crashed"}

prefix_lists == "[From Account 1] "

\* Elapsed times are kept up to MIN_INSERT_INTERVAL: the code only compares
\* them with it.
Saturated(t) == IF t < MIN_INSERT_INTERVAL THEN t ELSE MIN_INSERT_INTERVAL

\* Line 175: last_insert_time = 0.0, so that now - last_insert_time is the
\* time since the epoch, far above the interval.
SinceEpoch == MIN_INSERT_INTERVAL

\* Lines 184-187: the time slept by the throttle when `el` has elapsed since
\* last_insert_time.
ThrottleSleep(el) == IF el < MIN_INSERT_INTERVAL THEN MIN_INSERT_INTERVAL - el ELSE 0

InitFrom(sources, files) ==
    /\ pc = "idle"
    /\ run = 0
    /\ source \in sources
    /\ file \in files
    /\ dst_lists = <<>>
    /\ dst_tasks = <<>>
    /\ copied_ids = {}
    /\ src_lists = <<>>
    /\ list_id_map = <<>>
    /\ items = <<>>
    /\ page_token = NoToken
    /\ li = 1
    /\ tasks = <<>>
    /\ ti = 1
    /\ inserted = 0
    /\ skipped = 0
    /\ new_title = <<>>
    /\ body = EmptyDict
    /\ ex = NewEx("none")
    /\ after_save = "end"
    /\ err = NoErr
    /\ loaded = {}
    /\ saving = [old |-> file, new |-> file]
    /\ crash_pc = "none"
    /\ elapsed = SinceEpoch
    /\ since_write = MIN_INSERT_INTERVAL
    /\ write_gap = MIN_INSERT_INTERVAL

\* Before the first run: no checkpoint file, or one left by an earlier transfer.
Init == InitFrom(Sources, {Absent, json_dump({"a"})})

\* Variant of StartRun: a file that does not parse is taken as an empty
\* checkpoint and the run goes on.
StartRunFallback ==
    /\ pc \in Terminal \cup {"idle"}
    /\ run < MaxRuns
    /\ run' = run + 1
    /\ copied_ids' = FileIds(file)
    /\ pc' = "list_tasklists"
    /\ err' = NoErr
    /\ loaded' = copied_ids'
    /\ src_lists' = <<>>
    /\ list_id_map' = <<>>
    /\ items' = <<>>
    /\ page_token' = NoToken
    /\ li' = 1
    /\ tasks' = <<>>
    /\ ti' = 1
    /\ inserted' = 0
    /\ skipped' = 0
    /\ new_title' = <<>>
    /\ body' = EmptyDict
    /\ ex' = NewEx("none")
    /\ after_save' = "end"
    /\ crash_pc' = "none"
    /\ elapsed' = SinceEpoch
    /\ since_write' = MIN_INSERT_INTERVAL
    /\ write_gap' = MIN_INSERT_INTERVAL
    /\ UNCHANGED <<file, source, dst_lists, dst_tasks, saving>>

\* Lines 141-147: a run starts (from a fresh process) and loads the checkpoint.
StartRun ==
    /\ pc \in Terminal \cup {"idle"}
    /\ run < MaxRuns
    /\ run' = run + 1
    /\ IF Parses(file)
       THEN /\ copied_ids' = load_checkpoint(file)
            /\ pc' = "list_tasklists"
            /\ err' = NoErr
       ELSE /\ copied_ids' = {}
            /\ pc' = "error"
            /\ err' = [kind |-> "JSONDecodeError", op |-> "load_checkpoint",
                       status |-> 0, calls |-> 0]
    /\ loaded' = copied_ids'
    /\ src_lists' = <<>>
    /\ list_id_map' = <<>>
    /\ items' = <<>>
    /\ page_token' = NoToken
    /\ li' = 1
    /\ tasks' = <<>>
    /\ ti' = 1
    /\ inserted' = 0
    /\ skipped' = 0
    /\ new_title' = <<>>
    /\ body' = EmptyDict
    /\ ex' = NewEx("none")
    /\ after_save' = "end"
    /\ crash_pc' = "none"
    /\ elapsed' = SinceEpoch
    /\ since_write' = MIN_INSERT_INTERVAL
    /\ write_gap' = MIN_INSERT_INTERVAL
    /\ UNCHANGED <<file, source, dst_lists, dst_tasks, saving>>

\* Variant of OnTerminalFailure: the error is caught and the loop goes on.
OnTerminalFailureContinue(here) ==
    IF here = "insert_call" THEN "copy" ELSE "create_tasklist"

\* Lines 160 and 191 stand in no try block: an error raised by
\* execute_with_retry at position `here` leaves transfer() and ends the run.
OnTerminalFailure(here) == "error"

\* The position after the list-creation loop: the first iteration of the
\* copy loop, or the end of transfer() when list_id_map is empty.
EnterCopyLoop(map) == IF map = <<>> THEN "done" ELSE "list_tasks"

\* Lines 41-50, one iteration: one page of task lists is requested.  The call
\* is made outside execute_with_retry, so any HttpError ends the run.
ListTasklistsPage(o) ==
    /\ pc = "list_tasklists"
    /\ IF Succeeded(o)
       THEN /\ err' = err
            /\ LET resp == tasklists_list(page_token)
                   all == items \o Get(resp, "items", <<>>)
                   tok == Get(resp, "nextPageToken", NoToken)
               IN  IF tok # NoToken
                   THEN /\ items' = all
                        /\ page_token' = tok
                        /\ UNCHANGED <<pc, src_lists>>
                   ELSE /\ src_lists' = all
                        /\ items' = <<>>
                        /\ page_token' = NoToken
                        /\ pc' = IF all = <<>> THEN EnterCopyLoop(<<>>)
                                 ELSE "create_tasklist"
       ELSE /\ pc' = "error"
            /\ err' = [kind |-> "HttpError", op |-> "list_tasklists",
                       status |-> o, calls |-> 1]
            /\ UNCHANGED <<items, page_token, src_lists>>
    /\ UNCHANGED <<run, file, source, dst_lists, dst_tasks, copied_ids, list_id_map,
                   li, tasks, ti, inserted, skipped, new_title, body, ex,
                   after_save, loaded, saving, crash_pc>>
    /\ UNCHANGED clock

\* Lines 156-160: the next list of src_lists; its title is prefixed and
\* execute_with_retry is entered.
BeginCreateTasklist ==
    /\ pc = "create_tasklist"
    /\ LET tl == src_lists[li]
           title == Get(tl, "title", "Untitled")
       IN  new_title' = <<prefix_lists, title>>
    /\ ex' = NewEx("create_tasklist")
    /\ pc' = "create_tasklist_call"
    /\ UNCHANGED <<run, file, source, dst_lists, dst_tasks, copied_ids, src_lists,
                   list_id_map, items, page_token, li, tasks, ti, inserted, skipped,
                   body, after_save, err, loaded, saving, crash_pc>>
    /\ UNCHANGED clock

\* Lines 160-165 with 121-137 and 77-79: one invocation of
\* create_tasklist(dst, new_title) under execute_with_retry.
CreateTasklistAttempt(o) ==
    /\ pc = "create_tasklist_call"
    /\ LET tl == src_lists[li]
           created == [id |-> Len(dst_lists) + 1, title |-> new_title,
                       src |-> tl["id"], run |-> run]
           e2 == ExecAttempt(ex, o, created["id"])
       IN  /\ ex' = e2
           /\ dst_lists' = IF Succeeded(o) THEN Append(dst_lists, created) ELSE dst_lists
           /\ CASE e2.status = "returned" ->
                     LET map == DictSet(list_id_map, tl["id"], e2.result)
                     IN  /\ list_id_map' = map
                         /\ li' = IF li < Len(src_lists) THEN li + 1 ELSE 1
                         /\ pc' = IF li < Len(src_lists) THEN "create_tasklist"
                                  ELSE EnterCopyLoop(map)
                         /\ err' = err
                [] e2.status = "raised" ->
                     /\ pc' = OnTerminalFailure(pc)
                     /\ err' = HttpError(e2)
                     /\ UNCHANGED <<list_id_map, li>>
                [] OTHER -> UNCHANGED <<pc, err, list_id_map, li>>
    /\ UNCHANGED <<run, file, source, dst_tasks, copied_ids, src_lists, items,
                   page_token, tasks, ti, inserted, skipped, new_title, body,
                   after_save, loaded, saving, crash_pc>>
    /\ UNCHANGED clock

\* The position after the current task: the next task, or the
\* save_checkpoint of line 205 when the for loop over tasks is exhausted.
AfterTask(k, ts) == IF k < Len(ts) THEN "copy" ELSE "save_open"

\* Lines 53-74 and 169-175, one iteration: one page of tasks of the current
\* list is requested, outside execute_with_retry.
ListTasksPage(o) ==
    /\ pc = "list_tasks"
    /\ IF Succeeded(o)
       THEN /\ err' = err
            /\ LET src_list_id == list_id_map[li][1]
                   resp == tasks_list(src_list_id, page_token)
                   all == items \o Get(resp, "items", <<>>)
                   tok == Get(resp, "nextPageToken", NoToken)
               IN  IF tok # NoToken
                   THEN /\ items' = all
                        /\ page_token' = tok
                        /\ UNCHANGED <<pc, tasks, ti, inserted, skipped, after_save,
                                       elapsed>>
                   ELSE /\ tasks' = FilterTasks(all)
                        /\ items' = <<>>
                        /\ page_token' = NoToken
                        /\ inserted' = 0
                        /\ skipped' = 0
                        /\ ti' = 1
                        /\ pc' = AfterTask(0, FilterTasks(all))
                        /\ after_save' = "end"
                        /\ elapsed' = SinceEpoch
       ELSE /\ pc' = "error"
            /\ err' = [kind |-> "HttpError", op |-> "list_tasks",
                       status |-> o, calls |-> 1]
            /\ UNCHANGED <<items, page_token, tasks, ti, inserted, skipped, after_save,
                           elapsed>>
    /\ UNCHANGED <<run, file, source, dst_lists, dst_tasks, copied_ids, src_lists,
                   list_id_map, li, new_title, body, ex, loaded, saving, crash_pc>>
    /\ UNCHANGED <<since_write, write_gap>>

\* Variant of InCheckpoint: the checkpoint is never consulted.
InCheckpointIgnored(src_task_id, copied) == FALSE

\* Line 179: if src_task_id in copied_ids
InCheckpoint(src_task_id, copied) == src_task_id \in copied

\* Lines 177-181: the current task is in copied_ids and is skipped.
SkipTask ==
    /\ pc = "copy"
    /\ InCheckpoint(tasks[ti]["id"], copied_ids)
    /\ skipped' = skipped + 1
    /\ ti' = ti + 1
    /\ pc' = AfterTask(ti, tasks)
    /\ after_save' = "end"
    /\ UNCHANGED <<run, file, source, dst_lists, dst_tasks, copied_ids, src_lists,
                   list_id_map, items, page_token, li, tasks, inserted, new_title,
                   body, ex, err, loaded, saving, crash_pc>>
    /\ UNCHANGED clock

\* Lines 183-191: the current task is not in copied_ids: the throttle is
\* passed, the body is built and execute_with_retry is entered.
ThrottleAndBuild ==
    /\ pc = "copy"
    /\ ~InCheckpoint(tasks[ti]["id"], copied_ids)
    /\ LET slept == ThrottleSleep(elapsed)
       IN  /\ elapsed' = Saturated(elapsed + slept)
           /\ write_gap' = Saturated(since_write + slept)
           /\ since_write' = 0
    /\ body' = build_task_body(tasks[ti])
    /\ ex' = NewEx("insert_task")
    /\ pc' = "insert_call"
    /\ UNCHANGED <<run, file, source, dst_lists, dst_tasks, copied_ids, src_lists,
                   list_id_map, items, page_token, li, tasks, ti, inserted, skipped,
                   new_title, after_save, err, loaded, saving, crash_pc>>

\* Variant of RecordCopied: the identifier is recorded whatever the outcome.
RecordCopiedAlways(copied, src_task_id, e) == copied \cup {src_task_id}

\* Lines 196-198: copied_ids after execute_with_retry came back in state e.
RecordCopied(copied, src_task_id, e) ==
    IF e.status = "returned" THEN copied \cup {src_task_id} ELSE copied

\* Line 201: if inserted % 20 == 0
PeriodicSaveDue(n) == n % CHECKPOINT_EVERY = 0

\* Variant of InsertTarget: the destination list of the last pair of the map.
InsertTargetLast(map, i) == map[Len(map)][2]

\* Lines 168 and 192: dest_list_id of the pair of list_id_map.items() the
\* outer loop is at, as seen by the closure passed to execute_with_retry.
InsertTarget(map, i) == map[i][2]

\* Lines 191-203 with 121-137: one invocation of
\* dst.tasks().insert(tasklist=dest_list_id, body=body) under execute_with_retry.
InsertAttempt(o) ==
    /\ pc = "insert_call"
    /\ LET t == tasks[ti]
           dest_list_id == InsertTarget(list_id_map, li)
           created == [id |-> Len(dst_tasks) + 1, tasklist |-> dest_list_id,
                       body |-> body, src_list |-> list_id_map[li][1],
                       src_id |-> t["id"], run |-> run]
           e2 == ExecAttempt(ex, o, created["id"])
       IN  /\ ex' = e2
           /\ dst_tasks' = IF Succeeded(o) THEN Append(dst_tasks, created) ELSE dst_tasks
           /\ copied_ids' = RecordCopied(copied_ids, t["id"], e2)
           /\ CASE e2.status = "returned" ->
                     /\ elapsed' = 0
                     /\ inserted' = inserted + 1
                     /\ ti' = ti + 1
                     /\ IF PeriodicSaveDue(inserted + 1)
                        THEN /\ pc' = "save_open"
                             /\ after_save' = "periodic"
                        ELSE /\ pc' = AfterTask(ti, tasks)
                             /\ after_save' = "end"
                     /\ err' = err
                [] e2.status = "raised" ->
                     /\ pc' = OnTerminalFailure(pc)
                     /\ err' = HttpError(e2)
                     /\ UNCHANGED <<inserted, ti, after_save, elapsed>>
                [] OTHER -> UNCHANGED <<pc, err, inserted, ti, after_save, elapsed>>
    /\ UNCHANGED <<run, file, source, dst_lists, src_lists, list_id_map, items,
                   page_token, li, tasks, skipped, new_title, body, loaded,
                   saving, crash_pc>>
    /\ UNCHANGED <<since_write, write_gap>>

\* Line 109: open(CHECKPOINT_FILE, "w") truncates the file in place.
SaveOpen ==
    /\ pc = "save_open"
    /\ saving' = [old |-> file, new |-> json_dump(copied_ids)]
    /\ file' = Truncated
    /\ pc' = "save_write"
    /\ UNCHANGED <<run, source, dst_lists, dst_tasks, copied_ids, src_lists,
                   list_id_map, items, page_token, li, tasks, ti, inserted, skipped,
                   new_title, body, ex, after_save, err, loaded, crash_pc>>
    /\ UNCHANGED clock

\* Line 110 and the close of the with block: the document reaches the file.
\* After the save of line 202 the for loop goes on; after the save of line
\* 205 the next list is taken.
SaveWrite ==
    /\ pc = "save_write"
    /\ file' = json_dump(copied_ids)
    /\ IF after_save = "periodic"
       THEN /\ pc' = AfterTask(ti - 1, tasks)
            /\ after_save' = "end"
            /\ UNCHANGED <<li, items, page_token>>
       ELSE /\ li' = li + 1
            /\ pc' = IF li < Len(list_id_map) THEN "list_tasks" ELSE "done"
            /\ items' = <<>>
            /\ page_token' = NoToken
            /\ UNCHANGED after_save
    /\ UNCHANGED <<run, source, dst_lists, dst_tasks, copied_ids, src_lists,
                   list_id_map, tasks, ti, inserted, skipped, new_title, body, ex,
                   err, loaded, saving, crash_pc>>
    /\ UNCHANGED clock

\* The process is killed at any point of a run; only the file and the
\* remote accounts survive.
Crash ==
    /\ pc \in Running
    /\ crash_pc' = pc
    /\ pc' = "crashed"
    /\ copied_ids' = {}
    /\ src_lists' = <<>>
    /\ list_id_map' = <<>>
    /\ items' = <<>>
    /\ page_token' = NoToken
    /\ li' = 1
    /\ tasks' = <<>>
    /\ ti' = 1
    /\ inserted' = 0
    /\ skipped' = 0
    /\ new_title' = <<>>
    /\ body' = EmptyDict
    /\ ex' = NewEx("none")
    /\ after_save' = "end"
    /\ elapsed' = SinceEpoch
    /\ since_write' = MIN_INSERT_INTERVAL
    /\ write_gap' = MIN_INSERT_INTERVAL
    /\ UNCHANGED <<run, file, source, dst_lists, dst_tasks, err, loaded, saving>>

Next ==
    \/ StartRun
    \/ \E o \in Statuses : ListTasklistsPage(o)
    \/ BeginCreateTasklist
    \/ \E o \in Statuses : CreateTasklistAttempt(o)
    \/ \E o \in Statuses : ListTasksPage(o)
    \/ SkipTask
    \/ ThrottleAndBuild
    \/ \E o \in Statuses : InsertAttempt(o)
    \/ SaveOpen
    \/ SaveWrite
    \/ Crash

Spec == Init /\ [][Next]_vars

(***************************************************************************)
(* The functions on their own: save_checkpoint, load_checkpoint and        *)
(* build_task_body applied to inputs drawn from bounded sets.              *)
(***************************************************************************)
Ids == {"a", "b", "c", "d", "x", "y"}

OptField(k, values) == {EmptyDict} \cup {k :> v : v \in values}

\* Source tasks with every combination of absent, empty and set fields.
TaskInputs ==
    {a @@ b @@ c @@ d @@ e :
       a \in OptField("title", {"", "T"}),
       b \in OptField("notes", {"N"}),
       c \in OptField("status", {"completed", "needsAction", "Completed", ""}),
       d \in OptField("due", {"", "2024-02-01T00:00:00Z"}),
       e \in OptField("completed", {"", "2024-01-01T00:00:00Z"})}

InitFunctions ==
    /\ pc = "fn_input"
    /\ run = 0
    /\ source = SourceOdd
    /\ file \in {Absent, json_dump({"a", "x"})}
    /\ \/ copied_ids \in SUBSET Ids /\ tasks = <<>>
       \/ copied_ids = {} /\ tasks \in {<<t>> : t \in TaskInputs}
    /\ dst_lists = <<>>
    /\ dst_tasks = <<>>
    /\ src_lists = <<>>
    /\ list_id_map = <<>>
    /\ items = <<>>
    /\ page_token = NoToken
    /\ li = 1
    /\ ti = 1
    /\ inserted = 0
    /\ skipped = 0
    /\ new_title = <<>>
    /\ body = EmptyDict
    /\ ex = NewEx("none")
    /\ after_save = "end"
    /\ err = NoErr
    /\ loaded = {}
    /\ saving = [old |-> file, new |-> file]
    /\ crash_pc = "none"
    /\ elapsed = SinceEpoch
    /\ since_write = MIN_INSERT_INTERVAL
    /\ write_gap = MIN_INSERT_INTERVAL

\* Lines 108-110: save_checkpoint(copied_ids), run to its end.
FnSave ==
    /\ pc = "fn_input"
    /\ tasks = <<>>
    /\ saving' = [old |-> file, new |-> json_dump(copied_ids)]
    /\ file' = json_dump(copied_ids)
    /\ pc' = "fn_saved"
    /\ UNCHANGED <<run, source, dst_lists, dst_tasks, copied_ids, src_lists,
                   list_id_map, items, page_token, li, tasks, ti, inserted, skipped,
                   new_title, body, ex, after_save, err, loaded, crash_pc, clock>>

\* Lines 100-105: load_checkpoint(), of the file as found or as just saved.
FnLoad ==
    /\ pc \in {"fn_input", "fn_saved"}
    /\ tasks = <<>>
    /\ Parses(file)
    /\ loaded' = load_checkpoint(file)
    /\ pc' = IF pc = "fn_saved" THEN "fn_reloaded" ELSE "fn_loaded"
    /\ UNCHANGED <<run, file, source, dst_lists, dst_tasks, copied_ids, src_lists,
                   list_id_map, items, page_token, li, tasks, ti, inserted, skipped,
                   new_title, body, ex, after_save, err, saving, crash_pc, clock>>

\* Lines 82-97: build_task_body(tasks[1]).
FnTranslate ==
    /\ pc = "fn_input"
    /\ tasks # <<>>
    /\ body' = build_task_body(tasks[1])
    /\ pc' = "fn_translated"
    /\ UNCHANGED <<run, file, source, dst_lists, dst_tasks, copied_ids, src_lists,
                   list_id_map, items, page_token, li, tasks, ti, inserted, skipped,
                   new_title, ex, after_save, err, loaded, saving, crash_pc, clock>>

NextFunctions ==
    \/ FnSave
    \/ FnLoad
    \/ FnTranslate

SpecFunctions == InitFunctions /\ [][NextFunctions]_vars

\* The runs of transfer() on the long list, from no checkpoint file.
InitLong == InitFrom({SourceLong}, {Absent})

SpecLong == InitLong /\ [][Next]_vars

\* Time passes while a run is under way: one tick of the clock.
Tick ==
    /\ pc \in Running
    /\ elapsed < MIN_INSERT_INTERVAL \/ since_write < MIN_INSERT_INTERVAL
    /\ elapsed' = Saturated(elapsed + 1)
    /\ since_write' = Saturated(since_write + 1)
    /\ UNCHANGED <<pc, run, file, source, dst_lists, dst_tasks, copied_ids, src_lists,
                   list_id_map, items, page_token, li, tasks, ti, inserted, skipped,
                   new_title, body, ex, after_save, err, loaded, saving, crash_pc,
                   write_gap>>

NextTime ==
    \/ Next
    \/ Tick

\* The runs of Spec with the passing of time between their steps.
SpecTime == Init /\ [][NextTime]_vars

(***************************************************************************)
(* Definitions the properties are stated with                              *)
(***************************************************************************)
RECURSIVE Flatten(_)
Flatten(pages) == IF pages = <<>> THEN <<>> ELSE Head(pages) \o Flatten(Tail(pages))

\* The task lists and the tasks an enumeration of the source returns.
SourceLists == Flatten(source.lists)
SourceListIds == {SourceLists[i]["id"] : i \in DOMAIN SourceLists}
SourceTasks(l) == FilterTasks(Flatten(source.tasks[l]))

\* Successful destination item creations of the current run, of one source item.
CreationsOf(l, id) ==
    {k \in DOMAIN dst_tasks : /\ dst_tasks[k].run = run
                              /\ dst_tasks[k].src_list = l
                              /\ dst_tasks[k].src_id = id}

\* Identifiers whose destination creation returned successfully in this run.
CreatedThisRun == {dst_tasks[k].src_id : k \in {j \in DOMAIN dst_tasks : dst_tasks[j].run = run}}

\* Successful destination list creations, over all runs, for one source list.
ListCreationsOf(l) == {k \in DOMAIN dst_lists : dst_lists[k].src = l}

\* C1: a task whose identifier is in the checkpoint loaded at run start is
\* never throttled for nor sent to the destination in that run (no insert
\* call is in progress for it and none has succeeded), whatever the remote
\* outcomes; every such task already passed in the current list was counted
\* as skipped.
C1_IdempotentResume ==
    /\ pc = "insert_call" => tasks[ti]["id"] \notin loaded
    /\ \A k \in DOMAIN dst_tasks :
         dst_tasks[k].run = run => dst_tasks[k].src_id \notin loaded
    /\ skipped >= Cardinality({k \in DOMAIN tasks : k < ti /\ tasks[k]["id"] \in loaded})

C1_Witness ==
    /\ pc = "done"
    /\ loaded # {}
    /\ skipped > 0
    /\ \E k \in DOMAIN tasks : tasks[k]["id"] \in loaded
    /\ dst_tasks # <<>>

\* C2: when a run reaches Done, every enumerated source item, of every list,
\* whose identifier was not in the loaded checkpoint has exactly one
\* successful destination creation in that run.
C2_NoSilentDataLoss ==
    pc = "done" =>
      \A l \in SourceListIds :
        \A i \in DOMAIN SourceTasks(l) :
          SourceTasks(l)[i]["id"] \notin loaded =>
            Cardinality(CreationsOf(l, SourceTasks(l)[i]["id"])) = 1

\* C3: every identifier in the in-memory checkpoint set and in the checkpoint
\* file was loaded at run start or belongs to a task whose destination
\* creation has returned successfully in this run, in every state of a run,
\* also after a crash.
C3_NoFalsePositives ==
    pc # "idle" =>
      /\ copied_ids \subseteq loaded \cup CreatedThisRun
      /\ FileIds(file) \subseteq loaded \cup CreatedThisRun

C3_Witness ==
    /\ pc = "crashed"
    /\ FileIds(file) \ loaded # {}
    /\ CreatedThisRun \ FileIds(file) # {}

\* C4: over any sequence of runs against the same source, each source list
\* has at most one successful destination list creation, and exactly one
\* once a run is Done.
C4_ListsCreatedOnce ==
    \A l \in SourceListIds :
      /\ Cardinality(ListCreationsOf(l)) <= 1
      /\ pc = "done" => Cardinality(ListCreationsOf(l)) = 1

\* C5: when a run is aborted by an error raised from an item insertion, the
\* checkpoint file holds every identifier whose creation succeeded in the run.
C5_FlushOnAbort ==
    (pc = "error" /\ err.op = "insert_task") => CreatedThisRun \subseteq FileIds(file)

\* C6: when the process is killed during save_checkpoint, the file holds the
\* complete previous content or the complete new content.
C6_SaveCrashAtomic ==
    (pc = "crashed" /\ crash_pc \in {"save_open", "save_write"}) =>
      file \in {saving.old, saving.new}

\* C7: when the operation fails k < MAX_RETRIES times with a retryable status
\* and then succeeds, execute_with_retry is still running before the success,
\* returns the operation's value on it, and has invoked the operation
\* exactly k + 1 times, never again after the success.
C7_RetryThenSuccess ==
    /\ (ex.op # "none" /\ ex.oks = 0 /\ ex.nfails = 0 /\ ex.rfails < MAX_RETRIES)
         => ex.status = "running"
    /\ ex.oks > 0 =>
         /\ ex.status = "returned"
         /\ ex.oks = 1
         /\ ex.rfails < MAX_RETRIES
         /\ ex.calls = ex.rfails + 1
         /\ ex.result = ex.op_result

C7_Witness ==
    /\ ex.status = "returned"
    /\ ex.rfails = MAX_RETRIES - 1
    /\ ex.calls = MAX_RETRIES

\* C8: when the operation fails with a retryable status on MAX_RETRIES
\* consecutive invocations, execute_with_retry raises the error of the last
\* invocation, which ends the run, and the operation was invoked exactly
\* MAX_RETRIES times; it is never invoked more often.
C8_RetryExhaustion ==
    /\ ex.calls <= MAX_RETRIES
    /\ ex.rfails >= MAX_RETRIES =>
         /\ ex.status = "raised"
         /\ ex.calls = MAX_RETRIES
         /\ ex.last_err = ex.last_status
         /\ pc = "error"
         /\ err = [kind |-> "HttpError", op |-> ex.op,
                   status |-> ex.last_status, calls |-> MAX_RETRIES]

C8_Witness ==
    /\ ex.rfails = MAX_RETRIES
    /\ ex.status = "raised"
    /\ ex.op = "insert_task"
    /\ pc = "error"

\* C9: when an invocation fails with a status outside {403, 429, 500, 503},
\* at any attempt index, execute_with_retry raises that error at once: no
\* sleep follows it (every sleep followed a retryable failure) and the
\* operation is not invoked again.
C9_NonRetryableNotRetried ==
    ex.nfails > 0 =>
      /\ ex.status = "raised"
      /\ ex.nfails = 1
      /\ ex.last_status \notin Transient
      /\ ex.last_err = ex.last_status
      /\ ex.calls = ex.rfails + 1
      /\ ex.sleeps = ex.rfails
      /\ pc = "error"
      /\ err.status = ex.last_status

C9_Witness ==
    /\ ex.nfails = 1
    /\ ex.rfails = 3
    /\ ex.status = "raised"
    /\ pc = "error"

\* C10: a run is aborted by a retryable status only after the failing remote
\* call, be it a listing or a creation, was tried MAX_RETRIES times.
C10_TransientAlwaysRetried ==
    (pc = "error" /\ err.kind = "HttpError" /\ err.status \in Transient)
      => err.calls = MAX_RETRIES

\* A remote call of any kind is possible in the current state.
RemoteCall ==
    \E o \in Statuses :
      \/ ListTasklistsPage(o)
      \/ CreateTasklistAttempt(o)
      \/ ListTasksPage(o)
      \/ InsertAttempt(o)

\* C11: once execute_with_retry has raised for a list creation or an item
\* insertion, the run is over: transfer() is at its error end, where no
\* remote call of any kind is possible, the destination holds nothing the
\* run created after the failure, and the identifier of the failed item is
\* neither in the checkpoint set nor in the checkpoint file.
C11_TerminalFailureAborts ==
    err.op \in {"create_tasklist", "insert_task"} =>
      /\ pc = "error"
      /\ ex.status = "raised"
      /\ ex.op = err.op
      /\ ~ENABLED RemoteCall
      /\ err.op = "insert_task" =>
           /\ tasks[ti]["id"] \notin copied_ids
           /\ tasks[ti]["id"] \notin FileIds(file)
           /\ \A k \in DOMAIN dst_tasks :
                dst_tasks[k].run = run => dst_tasks[k].src_id # tasks[ti]["id"]

C11_Witness ==
    /\ pc = "error"
    /\ err.op = "insert_task"
    /\ ex.rfails > 0
    /\ ti < Len(tasks)
    /\ li < Len(list_id_map)
    /\ CreatedThisRun # {}

\* C12: within one run, at least MIN_INSERT_INTERVAL passes between the
\* starts of any two consecutive item writes, also between the last write of
\* one list and the first write of the next.
C12_RateLimit == write_gap >= MIN_INSERT_INTERVAL

\* What the current run created at the destination, in order of creation.
RunLists == SelectSeq(dst_lists, LAMBDA x : x.run = run)
RunTasks == SelectSeq(dst_tasks, LAMBDA x : x.run = run)

\* Position of a list in the enumeration of the source, of a task in the
\* enumeration of its list.
ListIdx(l) == CHOOSE i \in DOMAIN SourceLists : SourceLists[i]["id"] = l
TaskIdx(l, id) == CHOOSE i \in DOMAIN SourceTasks(l) : SourceTasks(l)[i]["id"] = id

CopyPhase == {"list_tasks", "copy", "insert_call", "save_open", "save_write"}

Phase(p) ==
    CASE p = "idle" -> 0
      [] p = "list_tasklists" -> 1
      [] p \in {"create_tasklist", "create_tasklist_call"} -> 2
      [] p \in CopyPhase -> 3
      [] p = "done" -> 4
      [] OTHER -> 5

\* Progress inside the copy loop of one list: listing, then task by task.
TaskStep(p, k) == IF p = "list_tasks" THEN 0 ELSE k

\* C13 (states): the source lists are all listed before a destination list is
\* created; the destination lists are created in enumeration order and all
\* of them before any task is listed or created; tasks are created list by
\* list in enumeration order and, within a list, in listing order; while
\* list i+1 is listed or copied, the file holds what was created for the
\* lists before it (their end-of-list flush is done).
C13_Order ==
    /\ \A k \in DOMAIN RunLists :
         /\ k <= Len(SourceLists)
         /\ RunLists[k].src = SourceLists[k]["id"]
    /\ (RunLists # <<>> /\ pc # "crashed") => src_lists = SourceLists
    /\ (RunTasks # <<>> \/ pc \in CopyPhase) => Len(RunLists) = Len(SourceLists)
    /\ pc \in CopyPhase => list_id_map[li][1] = SourceLists[li]["id"]
    /\ \A j, k \in DOMAIN RunTasks :
         j < k =>
           \/ ListIdx(RunTasks[j].src_list) < ListIdx(RunTasks[k].src_list)
           \/ /\ RunTasks[j].src_list = RunTasks[k].src_list
              /\ TaskIdx(RunTasks[j].src_list, RunTasks[j].src_id)
                   < TaskIdx(RunTasks[k].src_list, RunTasks[k].src_id)
    /\ pc \in CopyPhase \ {"save_write"} =>
         \A k \in DOMAIN RunTasks :
           ListIdx(RunTasks[k].src_list) < li => RunTasks[k].src_id \in FileIds(file)

\* C13 (steps): a step of a run never goes back: not to an earlier phase,
\* not to an earlier list, not to an earlier task of the same list.
C13_NoBackward ==
    (run' = run /\ pc' # "crashed") =>
      \/ Phase(pc') > Phase(pc)
      \/ /\ Phase(pc') = Phase(pc)
         /\ \/ li' > li
            \/ /\ li' = li
               /\ TaskStep(pc', ti') >= TaskStep(pc, ti)

\* C13: orchestrator phase ordering, in every state and over every step.
C13_PhaseOrdering == [](C13_Order) /\ [][C13_NoBackward]_vars

C13_Witness ==
    /\ pc = "done"
    /\ Len(RunLists) = 2
    /\ Len(RunTasks) >= 4
    /\ loaded = {}

\* C14: save_checkpoint(S) followed by load_checkpoint() returns exactly S,
\* for every set S of identifiers, the empty set included and whatever the
\* file held before; load_checkpoint() without a file returns the empty set.
C14_CheckpointRoundTrip ==
    /\ pc = "fn_reloaded" => loaded = copied_ids
    /\ (pc = "fn_loaded" /\ file = Absent) => loaded = {}

C14_Witness ==
    /\ pc = "fn_reloaded"
    /\ Cardinality(loaded) >= 3
    /\ saving.old # Absent
    /\ saving.old # file

\* A field of a dict that is present with a non-empty value.
HasValue(d, k) == k \in DOMAIN d /\ d[k] # ""

\* C15: the payload of build_task_body has status "completed" exactly when
\* the source status is exactly "completed" and "needsAction" otherwise;
\* title and notes are the source values, or "" when absent; it has a due
\* (completed) key only when the source has a due (completed) value, and
\* then with that value; no key is present without a value and there is no
\* other key.
C15_Translator ==
    pc = "fn_translated" =>
      LET t == tasks[1]
      IN  /\ DOMAIN body \subseteq {"title", "notes", "status", "due", "completed"}
          /\ {"title", "notes", "status"} \subseteq DOMAIN body
          /\ body["status"] \in {"completed", "needsAction"}
          /\ body["status"] = "completed"
               <=> ("status" \in DOMAIN t /\ t["status"] = "completed")
          /\ body["title"] = (IF "title" \in DOMAIN t THEN t["title"] ELSE "")
          /\ body["notes"] = (IF "notes" \in DOMAIN t THEN t["notes"] ELSE "")
          /\ \A k \in {"due", "completed"} :
               /\ k \in DOMAIN body => (HasValue(t, k) /\ body[k] = t[k])
               /\ HasValue(t, k) => k \in DOMAIN body

C15_Witness ==
    /\ pc = "fn_translated"
    /\ "due" \notin DOMAIN tasks[1]
    /\ "due" \notin DOMAIN body
    /\ HasValue(tasks[1], "completed")
    /\ "status" \notin DOMAIN tasks[1]
    /\ body["status"] = "needsAction"

\* C16: a run that finds a checkpoint file that does not parse ends with the
\* parse error before it created anything at the destination; no remote call
\* and no save is possible afterwards, so the file stays as it was found.  A
\* run is never under way on an unparseable file, except inside its own
\* save_checkpoint.
C16_CorruptFailsLoudly ==
    /\ err.kind = "JSONDecodeError" =>
         /\ pc = "error"
         /\ ~Parses(file)
         /\ RunLists = <<>>
         /\ RunTasks = <<>>
         /\ ~ENABLED RemoteCall
         /\ ~ENABLED (SaveOpen \/ SaveWrite)
    /\ (pc \in Running /\ ~Parses(file)) => pc = "save_write"

C16_Witness ==
    /\ pc = "error"
    /\ err.kind = "JSONDecodeError"
    /\ file = Truncated
    /\ dst_tasks # <<>>

\* Identifiers created in this run that the checkpoint file does not hold.
Unflushed == CreatedThisRun \ FileIds(file)

\* Destination tasks of this run whose source task an earlier run had
\* already created.
Duplicates ==
    {k \in DOMAIN dst_tasks :
       /\ dst_tasks[k].run = run
       /\ \E j \in DOMAIN dst_tasks :
            /\ dst_tasks[j].run < run
            /\ dst_tasks[j].src_list = dst_tasks[k].src_list
            /\ dst_tasks[j].src_id = dst_tasks[k].src_id}

\* C17: at every point of a run at most CHECKPOINT_EVERY identifiers created
\* in the run are missing from the checkpoint file, and the run after a
\* killed run creates at most CHECKPOINT_EVERY duplicates.
C17_BoundedUnflushed ==
    /\ Cardinality(Unflushed) <= CHECKPOINT_EVERY
    /\ Cardinality(Duplicates) <= CHECKPOINT_EVERY

\* The items of the pages requested so far, when tok is the continuation
\* token of the last response.
PagesBefore(pages, tok) == Flatten(SubSeq(pages, 1, tok - 1))

\* The items that carry an identifier and are not marked deleted, in order.
Usable(s) ==
    SelectSeq(s, LAMBDA t : /\ "id" \in DOMAIN t
                            /\ t["id"] # ""
                            /\ ~("deleted" \in DOMAIN t /\ t["deleted"]))

\* C18: while pages are being requested the accumulated items are those of
\* the pages before the continuation token, in page order; the listing of
\* task lists returns the items of all pages; the tasks of the current list
\* are the items of all its pages without those lacking an identifier or
\* marked deleted, in their order.
C18_Enumeration ==
    /\ pc = "list_tasklists" =>
         items = IF page_token = NoToken THEN <<>>
                 ELSE PagesBefore(source.lists, page_token)
    /\ pc = "list_tasks" =>
         items = IF page_token = NoToken THEN <<>>
                 ELSE PagesBefore(source.tasks[list_id_map[li][1]], page_token)
    /\ pc \in {"create_tasklist", "create_tasklist_call", "list_tasks", "copy", "insert_call"} =>
         src_lists = Flatten(source.lists)
    /\ pc \in {"copy", "insert_call"} =>
         tasks = Usable(Flatten(source.tasks[list_id_map[li][1]]))

\* A list served on two pages whose listing dropped some items is being copied.
C18_Witness ==
    /\ pc = "copy"
    /\ Len(source.tasks[list_id_map[li][1]]) > 1
    /\ 0 < Len(tasks)
    /\ Len(tasks) < Len(Flatten(source.tasks[list_id_map[li][1]]))

\* C19: every backoff sleep of execute_with_retry is followed by a further
\* invocation of the operation, so when the executor has returned or raised
\* it has slept fewer times than it invoked the operation, and exactly one
\* time fewer when the bound MAX_RETRIES was exhausted.
C19_SleepOnlyBetweenAttempts ==
    /\ ex.status \in {"returned", "raised"} => ex.sleeps < ex.calls
    /\ (ex.status = "raised" /\ ex.calls = MAX_RETRIES /\ ex.rfails = MAX_RETRIES) =>
         ex.sleeps = ex.calls - 1

\* C20: every task created in this run lies in the destination list that
\* was created in this run for the source list the task was listed from, and
\* its body is the translation of that source task; while the creation call
\* is being made or retried, the pair of the map and the body are those of
\* the source list and the source task at hand.
C20_MappedCollection ==
    /\ \A k \in DOMAIN RunTasks :
         LET c == RunTasks[k]
             listed == Usable(Flatten(source.tasks[c.src_list]))
         IN  /\ \E j \in DOMAIN RunLists :
                  /\ RunLists[j].src = c.src_list
                  /\ RunLists[j].id = c.tasklist
             /\ \E i \in DOMAIN listed :
                  /\ listed[i]["id"] = c.src_id
                  /\ c.body = build_task_body(listed[i])
    /\ pc = "insert_call" =>
         /\ body = build_task_body(tasks[ti])
         /\ \E j \in DOMAIN RunLists :
              /\ RunLists[j].src = list_id_map[li][1]
              /\ RunLists[j].id = list_id_map[li][2]

\* A task of the first of two lists was created, in a later run, by a call
\* that had been retried.
C20_Witness ==
    /\ run > 1
    /\ ex.op = "insert_task"
    /\ ex.status = "returned"
    /\ ex.calls > 1
    /\ Len(list_id_map) > 1
    /\ RunTasks # <<>>
    /\ RunTasks[Len(RunTasks)].src_list = list_id_map[1][1]

====
